---- MODULE Spec2Model ----
(***************************************************************************)
(* Reader module of SimpleTextReader: the pagination strip computed by     *)
(* reader._getPageList and the navigation operations gotoPage,             *)
(* gotoPageInputField and gotoLine (src/unnamed/part_001).                 *)
(*                                                                         *)
(* JavaScript arrays are modelled as TLA+ sequences: the array element     *)
(* a[i] (0-based) is the sequence element a[i + 1].                        *)
(***************************************************************************)
EXTENDS Integers, Sequences, FiniteSets, TLC

(***************************************************************************)
(* Bounds of the model.                                                    *)
(***************************************************************************)
\* largest totalPages handed to _getPageList (besides the scenario of 100 pages)
MaxTotalPages == 14
\* largest maxLength handed to _getPageList
MaxMaxLength == 10

\* length of the content buffer of the small documents
MaxLine == 2
\* the ui_numPaginationItems setting
NumPaginationItems == 5
\* largest number of scroll timers pending at once
MaxTimers == 1
\* largest number of entries of CONFIG.VARS.ALL_TITLES
MaxTitles == 2
\* largest number of renders of one table of contents
MaxRenders == 2

VARIABLES
    plArgs,     \* arguments of the last _getPageList call
    plOut,      \* its outcome: thrown error or returned array
    plState     \* "idle" before the first call, then "returned" or "threw"

VARIABLES
    PAGE_BREAKS,            \* CONFIG.VARS.PAGE_BREAKS
    TOTAL_PAGES,            \* CONFIG.VARS.TOTAL_PAGES
    CURRENT_PAGE,           \* CONFIG.VARS.CURRENT_PAGE
    IS_PROCESSING,          \* CONFIG.VARS.IS_PROCESSING
    maxLines,               \* CONFIG.VARS.FILE_CONTENT_CHUNKS.length
    ui_numPaginationItems,  \* parseInt(CONFIG.RUNTIME_VARS.STYLE.ui_numPaginationItems)
    GOTO_TITLE_CLICKED,     \* CONFIG.VARS.GOTO_TITLE_CLICKED
    content,                \* the index range last rendered into CONTENT_CONTAINER
    showPages,              \* the page list last rendered into PAGINATION_CONTAINER
    lastScroll,             \* the kind of the last scroll instruction carried out
    scrollTimers,           \* pending setTimeout(scroll to top) callbacks
    last                    \* the last handler run: its arguments and what it did

VARIABLES
    ALL_TITLES,         \* CONFIG.VARS.ALL_TITLES: the line number of every title
    latestTitleIndex,   \* tocConfig.latestTitleIndex
    latestLineNum,      \* tocConfig.latestLineNum
    tocElements,        \* the line numbers whose #title_<lineNum> is in the document
    tocRenders,         \* what every afterRender call registered and what came of it
    tocEvents           \* the lineNum of every tocRendered event triggered, in order

plVars == <<plArgs, plOut, plState>>

tocVars == <<ALL_TITLES, latestTitleIndex, latestLineNum, tocElements,
             tocRenders, tocEvents>>

docVars == <<PAGE_BREAKS, TOTAL_PAGES, IS_PROCESSING, maxLines, ui_numPaginationItems>>

navVars == <<PAGE_BREAKS, TOTAL_PAGES, CURRENT_PAGE, IS_PROCESSING, maxLines,
             ui_numPaginationItems, GOTO_TITLE_CLICKED, content, showPages,
             lastScroll, scrollTimers, last>>

vars == <<plArgs, plOut, plState, PAGE_BREAKS, TOTAL_PAGES, CURRENT_PAGE,
          IS_PROCESSING, maxLines, ui_numPaginationItems, GOTO_TITLE_CLICKED,
          content, showPages, lastScroll, scrollTimers, last, ALL_TITLES,
          latestTitleIndex, latestLineNum, tocElements, tocRenders, tocEvents>>

(***************************************************************************)
(* reader._getPageList                                                     *)
(***************************************************************************)

\* the gap marker the page list uses in place of a page number
Gap == 0

range_RepeatsStart(start, end) ==
    [i \in 1..(IF end - start + 1 > 0 THEN end - start + 1 ELSE 0) |-> start]

range_OffByOne(start, end) ==
    [i \in 1..(IF end - start > 0 THEN end - start ELSE 0) |-> (i - 1) + start]

\* const range = (start, end) => Array.from({ length: end - start + 1 }, (_, i) => i + start)
\* (a negative length gives the empty array)
range(start, end) ==
    [i \in 1..(IF end - start + 1 > 0 THEN end - start + 1 ELSE 0) |-> (i - 1) + start]

maxLengthTooSmall_Four(maxLength) == maxLength < 4

\* if (maxLength < 5) throw new Error(...)
maxLengthTooSmall(maxLength) == maxLength < 5

sideWidth_AlwaysTwo(maxLength) == 2

\* const sideWidth = maxLength < 9 ? 1 : 2
sideWidth(maxLength) == IF maxLength < 9 THEN 1 ELSE 2

leftWidth_RoundedUp(maxLength) == (maxLength - sideWidth(maxLength) * 2 - 2) \div 2

\* const leftWidth = Math.floor((maxLength - sideWidth * 2 - 3) / 2)
leftWidth(maxLength) == (maxLength - sideWidth(maxLength) * 2 - 3) \div 2

\* const rightWidth = Math.floor((maxLength - sideWidth * 2 - 2) / 2)
rightWidth(maxLength) == (maxLength - sideWidth(maxLength) * 2 - 2) \div 2

\* if (totalPages <= maxLength)
fitsAll(totalPages, maxLength) == totalPages <= maxLength

nearStart_Strict(currentPage, maxLength) ==
    currentPage < maxLength - sideWidth(maxLength) - 1 - rightWidth(maxLength)

\* if (currentPage <= maxLength - sideWidth - 1 - rightWidth)
nearStart(currentPage, maxLength) ==
    currentPage <= maxLength - sideWidth(maxLength) - 1 - rightWidth(maxLength)

nearEnd_Strict(totalPages, currentPage, maxLength) ==
    currentPage > totalPages - sideWidth(maxLength) - 1 - rightWidth(maxLength)

\* if (currentPage >= totalPages - sideWidth - 1 - rightWidth)
nearEnd(totalPages, currentPage, maxLength) ==
    currentPage >= totalPages - sideWidth(maxLength) - 1 - rightWidth(maxLength)

nearStartList_ProcessingInverted(totalPages, maxLength, duringProcessing) ==
    LET pageList ==
            range(1, maxLength - sideWidth(maxLength) - 1) \o <<Gap>>
                \o range(totalPages - sideWidth(maxLength) + 1, totalPages)
        pageList_duringProcessing ==
            range(1, maxLength - sideWidth(maxLength) - 1) \o <<Gap>>
    IN  IF duringProcessing THEN pageList ELSE pageList_duringProcessing

nearStartList_NoTruncation(totalPages, maxLength, duringProcessing) ==
    range(1, maxLength - sideWidth(maxLength) - 1) \o <<Gap>>
        \o range(totalPages - sideWidth(maxLength) + 1, totalPages)

nearStartList_NoGap(totalPages, maxLength, duringProcessing) ==
    LET pageList ==
            range(1, maxLength - sideWidth(maxLength)) 
                \o range(totalPages - sideWidth(maxLength) + 1, totalPages)
        pageList_duringProcessing ==
            range(1, maxLength - sideWidth(maxLength) - 1) \o <<Gap>>
    IN  IF duringProcessing THEN pageList_duringProcessing ELSE pageList

\* the near-start branch: pageList and pageList_duringProcessing
nearStartList(totalPages, maxLength, duringProcessing) ==
    LET pageList ==
            range(1, maxLength - sideWidth(maxLength) - 1) \o <<Gap>>
                \o range(totalPages - sideWidth(maxLength) + 1, totalPages)
        pageList_duringProcessing ==
            range(1, maxLength - sideWidth(maxLength) - 1) \o <<Gap>>
    IN  IF duringProcessing THEN pageList_duringProcessing ELSE pageList

nearEndList_ShortRun(totalPages, maxLength, duringProcessing) ==
    LET pageList ==
            range(1, sideWidth(maxLength)) \o <<Gap>>
                \o range(totalPages - sideWidth(maxLength) - 1
                            - rightWidth(maxLength), totalPages)
        pageList_duringProcessing == range(1, sideWidth(maxLength)) \o <<Gap>>
    IN  IF duringProcessing THEN pageList_duringProcessing ELSE pageList

\* the near-end branch
nearEndList(totalPages, maxLength, duringProcessing) ==
    LET pageList ==
            range(1, sideWidth(maxLength)) \o <<Gap>>
                \o range(totalPages - sideWidth(maxLength) - 1
                            - rightWidth(maxLength) - leftWidth(maxLength), totalPages)
        pageList_duringProcessing == range(1, sideWidth(maxLength)) \o <<Gap>>
    IN  IF duringProcessing THEN pageList_duringProcessing ELSE pageList

middleList_NoTrailingGap(totalPages, currentPage, maxLength, duringProcessing) ==
    LET window == range(currentPage - leftWidth(maxLength),
                        currentPage + rightWidth(maxLength))
        pageList ==
            range(1, sideWidth(maxLength)) \o <<Gap>> \o window \o <<Gap>>
                \o range(totalPages - sideWidth(maxLength) + 1, totalPages)
        pageList_duringProcessing ==
            range(1, sideWidth(maxLength)) \o <<Gap>> \o window
    IN  IF duringProcessing THEN pageList_duringProcessing ELSE pageList

middleList_ThirdGap(totalPages, currentPage, maxLength, duringProcessing) ==
    LET window == range(currentPage - leftWidth(maxLength),
                        currentPage + rightWidth(maxLength))
        pageList ==
            range(1, sideWidth(maxLength)) \o <<Gap>> \o window \o <<Gap>>
                \o range(totalPages - sideWidth(maxLength) + 1, totalPages)
        pageList_duringProcessing ==
            range(1, sideWidth(maxLength)) \o <<Gap>> \o window \o <<Gap, Gap>>
    IN  IF duringProcessing THEN pageList_duringProcessing ELSE pageList

\* the middle branch
middleList(totalPages, currentPage, maxLength, duringProcessing) ==
    LET window == range(currentPage - leftWidth(maxLength),
                        currentPage + rightWidth(maxLength))
        pageList ==
            range(1, sideWidth(maxLength)) \o <<Gap>> \o window \o <<Gap>>
                \o range(totalPages - sideWidth(maxLength) + 1, totalPages)
        pageList_duringProcessing ==
            range(1, sideWidth(maxLength)) \o <<Gap>> \o window \o <<Gap>>
    IN  IF duringProcessing THEN pageList_duringProcessing ELSE pageList

\* _getPageList(totalPages, currentPage, maxLength, duringProcessing):
\* the outcome is a thrown Error or the returned array
getPageList(totalPages, currentPage, maxLength, duringProcessing) ==
    IF maxLengthTooSmall(maxLength)
      THEN [threw |-> TRUE, list |-> <<>>]
    ELSE IF fitsAll(totalPages, maxLength)
      THEN [threw |-> FALSE, list |-> range(1, totalPages)]
    ELSE IF nearStart(currentPage, maxLength)
      THEN [threw |-> FALSE,
            list |-> nearStartList(totalPages, maxLength, duringProcessing)]
    ELSE IF nearEnd(totalPages, currentPage, maxLength)
      THEN [threw |-> FALSE,
            list |-> nearEndList(totalPages, maxLength, duringProcessing)]
    ELSE [threw |-> FALSE,
          list |-> middleList(totalPages, currentPage, maxLength, duringProcessing)]

(***************************************************************************)
(* JavaScript values used by the navigation operations.                    *)
(***************************************************************************)

\* a JavaScript number: an integer or NaN
Num(n) == [nan |-> FALSE, val |-> n]

NaN == [nan |-> TRUE, val |-> 0]

\* isNaN(x)
isNaN(x) == x.nan

\* Math.min and Math.max on integers
Min(a, b) == IF a <= b THEN a ELSE b

Max(a, b) == IF a >= b THEN a ELSE b

\* a string is a sequence of characters
Digits == <<"0", "1", "2", "3", "4", "5", "6", "7", "8", "9">>

HexLetters == <<"a", "b", "c", "d", "e", "f">>

\* the value of character c as a digit in the radix, or -1
DigitValue(c, radix) ==
    IF \E i \in 1..10 : Digits[i] = c
      THEN (CHOOSE i \in 1..10 : Digits[i] = c) - 1
    ELSE IF radix = 16 /\ \E i \in 1..6 : HexLetters[i] = c
      THEN (CHOOSE i \in 1..6 : HexLetters[i] = c) + 9
    ELSE -1

RECURSIVE SkipWhitespace(_)
SkipWhitespace(str) ==
    IF str # <<>> /\ Head(str) = " " THEN SkipWhitespace(Tail(str)) ELSE str

\* the longest prefix of digits of str, read in the radix, after acc;
\* seen says whether a digit was read
RECURSIVE ReadDigits(_, _, _, _)
ReadDigits(str, radix, acc, seen) ==
    IF str # <<>> /\ DigitValue(Head(str), radix) >= 0
      THEN ReadDigits(Tail(str), radix, acc * radix + DigitValue(Head(str), radix), TRUE)
      ELSE [seen |-> seen, val |-> acc]

\* parseInt(str): leading white space is skipped, an optional sign and an
\* optional 0x prefix are read, then digits up to the first other character;
\* NaN when there is no digit
parseInt(str) ==
    LET s1 == SkipWhitespace(str)
        neg == s1 # <<>> /\ Head(s1) = "-"
        s2 == IF s1 # <<>> /\ Head(s1) \in {"-", "+"} THEN Tail(s1) ELSE s1
        hex == Len(s2) >= 2 /\ s2[1] = "0" /\ s2[2] \in {"x", "X"}
        s3 == IF hex THEN Tail(Tail(s2)) ELSE s2
        r == ReadDigits(s3, IF hex THEN 16 ELSE 10, 0, FALSE)
    IN  IF ~r.seen THEN NaN
        ELSE Num(IF neg THEN 0 - r.val ELSE r.val)

\* the decimal digits of a positive integer, as innerText shows a page number
RECURSIVE toText(_)
toText(n) ==
    IF n < 10 THEN <<Digits[n + 1]>>
    ELSE toText(n \div 10) \o <<Digits[(n % 10) + 1]>>

(***************************************************************************)
(* Rendering: showCurrentPageContent and generatePagination.               *)
(***************************************************************************)

\* array[index] || fallback: the fallback is taken when the index is outside
\* the array and when the element is 0
elementOr(array, index, fallback) ==
    IF (index + 1) \in DOMAIN array /\ array[index + 1] # 0
      THEN array[index + 1]
      ELSE fallback

startIndex_PageBreakOfPage(page) == elementOr(PAGE_BREAKS, page, 0)

\* const startIndex = CONFIG.VARS.PAGE_BREAKS[CONFIG.VARS.CURRENT_PAGE - 1] || 0
startIndex(page) == elementOr(PAGE_BREAKS, page - 1, 0)

\* const endIndex = CONFIG.VARS.PAGE_BREAKS[CONFIG.VARS.CURRENT_PAGE] || maxLines
endIndex(page) == elementOr(PAGE_BREAKS, page, maxLines)

\* showCurrentPageContent with CURRENT_PAGE = page: the container is emptied
\* and the lines startIndex <= j < Math.min(endIndex, maxLines) are appended
showCurrentPageContent(page) ==
    [startIndex |-> startIndex(page), endIndex |-> endIndex(page)]

\* the content lines a rendering shows
renderedLines(c) ==
    IF maxLines > 0
      THEN {j \in c.startIndex..(Min(c.endIndex, maxLines) - 1) : TRUE}
      ELSE {}

\* generatePagination with CURRENT_PAGE = page: the page list it asks for
generatePagination(page) ==
    getPageList(TOTAL_PAGES, page, ui_numPaginationItems, IS_PROCESSING)

(***************************************************************************)
(* Scroll instructions and the record of a handler run.                    *)
(***************************************************************************)

NoScroll     == [kind |-> "none", line |-> -1]
ScrollTop    == [kind |-> "top", line |-> -1]      \* window.scrollTo({top: 0})
ScrollBottom == [kind |-> "bottom", line |-> -1]   \* window.scrollTo({top: scrollHeight})
\* line.scrollIntoView()
ScrollLine(lineNumber) == [kind |-> "line", line |-> lineNumber]
\* line.scrollIntoView() followed by window.scrollBy(0, -scrollBackPx)
ScrollHeading(lineNumber) == [kind |-> "heading", line |-> lineNumber]

\* a handler that has not run any of its steps
NoCall ==
    [op |-> "none",
     page |-> NaN,              \* gotoPage: the page argument
     scrollTo |-> "none",       \* the scrollTo argument
     text |-> <<>>,             \* gotoPageInputField: e.target.value
     key |-> "",                \* gotoPageInputField: e.key
     lineNumber |-> -1,         \* gotoLine: the line argument
     isTitle |-> FALSE,         \* gotoLine: the isTitle argument
     element |-> "none",        \* gotoLine: what GET_LINE gave
     needToGoPage |-> 0,        \* gotoLine: the resolved page
     samePage |-> TRUE,         \* CURRENT_PAGE is what it was before the handler
     threw |-> FALSE,           \* the handler ended by an exception
     historyFailed |-> FALSE,   \* gotoLine: setHistory threw
     ret |-> 0,                 \* gotoLine: the value returned
     renders |-> 0,             \* calls of showCurrentPageContent
     paginations |-> 0,         \* calls of generatePagination
     scrolls |-> <<>>,          \* scroll instructions carried out, in order
     timers |-> 0,              \* setTimeout callbacks registered
     titles |-> <<>>,           \* setChapterTitleActive calls, in order
     history |-> <<>>]          \* setHistory calls, in order

(***************************************************************************)
(* gotoPage                                                                *)
(***************************************************************************)

clampPage_NoLowerBound(page, current) ==
    IF isNaN(page) THEN current ELSE Min(page.val, TOTAL_PAGES)

clampPage_NoUpperBound(page, current) ==
    IF isNaN(page) THEN current ELSE Max(1, page.val)

\* isNaN(page) ? CURRENT_PAGE : Math.max(1, Math.min(page, TOTAL_PAGES))
clampPage(page, current) ==
    IF isNaN(page) THEN current ELSE Max(1, Min(page.val, TOTAL_PAGES))

\* the scroll instruction gotoPage carries out for its scrollTo argument
scrollFor(scrollTo) ==
    IF scrollTo = "top" THEN <<ScrollTop>>
    ELSE IF scrollTo = "bottom" THEN <<ScrollBottom>>
    ELSE <<>>

gotoPageEffect_SkipsCurrentPage(page, scrollTo, current, scroll) ==
    LET newPage == clampPage(page, current)
    IN  LET list == generatePagination(newPage)
        IN  LET scrolls == IF list.threw THEN <<>> ELSE scrollFor(scrollTo)
            IN  IF newPage = current
                  THEN [CURRENT_PAGE |-> current, content |-> content,
                        showPages |-> showPages, threw |-> FALSE,
                        renders |-> 0, paginations |-> 0, scrolls |-> <<>>,
                        lastScroll |-> scroll]
                  ELSE [CURRENT_PAGE |-> newPage,
                        content |-> showCurrentPageContent(newPage),
                        showPages |-> IF list.threw THEN <<>> ELSE list.list,
                        threw |-> list.threw,
                        renders |-> 1, paginations |-> 1,
                        scrolls |-> scrolls,
                        lastScroll |-> IF scrolls = <<>> THEN scroll
                                       ELSE scrolls[Len(scrolls)].kind]

\* gotoPage(page, scrollTo) run from a state with CURRENT_PAGE = current and
\* last scroll instruction scroll: the values it leaves and the calls of
\* showCurrentPageContent and generatePagination it makes.  An exception of
\* _getPageList leaves generatePagination after the pagination container was
\* emptied and ends gotoPage before it scrolls.
gotoPageEffect(page, scrollTo, current, scroll) ==
    LET newPage == clampPage(page, current)
    IN  LET list == generatePagination(newPage)
        IN  LET scrolls == IF list.threw THEN <<>> ELSE scrollFor(scrollTo)
            IN  [CURRENT_PAGE |-> newPage,
                 content |-> showCurrentPageContent(newPage),
                 showPages |-> IF list.threw THEN <<>> ELSE list.list,
                 threw |-> list.threw,
                 renders |-> 1, paginations |-> 1,
                 scrolls |-> scrolls,
                 lastScroll |-> IF scrolls = <<>> THEN scroll
                                ELSE scrolls[Len(scrolls)].kind]

\* the state change of a handler that is one gotoPage(page, scrollTo) call
gotoPageCall(opName, page, scrollTo) ==
    \E e \in {gotoPageEffect(page, scrollTo, CURRENT_PAGE, lastScroll)} :
        /\ CURRENT_PAGE' = e.CURRENT_PAGE
        /\ content' = e.content
        /\ showPages' = e.showPages
        /\ lastScroll' = e.lastScroll
        /\ last' = [NoCall EXCEPT !.op = opName, !.page = page,
                                  !.scrollTo = scrollTo,
                                  !.samePage = (e.CURRENT_PAGE = CURRENT_PAGE),
                                  !.threw = e.threw, !.renders = e.renders,
                                  !.paginations = e.paginations,
                                  !.scrolls = e.scrolls]
        /\ UNCHANGED <<docVars, GOTO_TITLE_CLICKED, scrollTimers, plVars, tocVars>>

\* the page arguments tried: every page, values beyond both ends of
\* 1..TOTAL_PAGES, and NaN
PageInputs ==
    {Num(n) : n \in (0..(TOTAL_PAGES + 1)) \cup {TOTAL_PAGES + 5}} \cup {NaN}

\* "none" stands for every scrollTo that is neither "top" nor "bottom"
ScrollToInputs == {"top", "bottom", "none"}

\* reader.gotoPage(page, scrollTo)
gotoPage ==
    \E page \in PageInputs, scrollTo \in ScrollToInputs :
        gotoPageCall("gotoPage", page, scrollTo)

\* click on the previous-page button, which is rendered beside page 1:
\* this.gotoPage(CONFIG.VARS.CURRENT_PAGE - 1, "bottom")
clickPrev ==
    /\ \E i \in DOMAIN showPages : showPages[i] = 1
    /\ gotoPageCall("clickPrev", Num(CURRENT_PAGE - 1), "bottom")

\* click on the next-page button, which is rendered beside page TOTAL_PAGES:
\* this.gotoPage(CONFIG.VARS.CURRENT_PAGE + 1)
clickNext ==
    /\ \E i \in DOMAIN showPages : showPages[i] = TOTAL_PAGES
    /\ gotoPageCall("clickNext", Num(CURRENT_PAGE + 1), "top")

\* click on a page number button: this.gotoPage(parseInt(e.target.innerHTML))
clickPage ==
    \E i \in DOMAIN showPages :
        /\ showPages[i] # Gap
        /\ gotoPageCall("clickPage", parseInt(toText(showPages[i])), "top")

(***************************************************************************)
(* gotoPageInputField                                                      *)
(***************************************************************************)

\* the texts typed into a page jump input
TextInputs ==
    { <<"a">>, <<" ", "3">>, <<"-", "1">>, <<"9", "9">>, <<"2", ".", "5">> }

\* reader.gotoPageInputField(e, scrollTo) with e.key === "Enter"
gotoPageInputField ==
    \E text \in TextInputs, scrollTo \in ScrollToInputs :
      \E page \in {parseInt(text)} :
      \E newPage \in {clampPage(page, CURRENT_PAGE)} :
      \E list \in {generatePagination(newPage)} :
        LET deferred == ~list.threw /\ scrollTo = "top"
            scrolls == IF ~list.threw /\ scrollTo = "bottom"
                         THEN <<ScrollBottom>> ELSE <<>>
        IN  /\ deferred => scrollTimers < MaxTimers
            /\ CURRENT_PAGE' = newPage
            /\ content' = showCurrentPageContent(newPage)
            /\ showPages' = IF list.threw THEN <<>> ELSE list.list
            /\ scrollTimers' = IF deferred THEN scrollTimers + 1 ELSE scrollTimers
            /\ lastScroll' = IF scrolls = <<>> THEN lastScroll
                             ELSE ScrollBottom.kind
            /\ last' = [NoCall EXCEPT
                          !.op = "gotoPageInputField", !.text = text,
                          !.key = "Enter", !.page = page, !.scrollTo = scrollTo,
                          !.samePage = (newPage = CURRENT_PAGE),
                          !.threw = list.threw, !.renders = 1,
                          !.paginations = 1, !.scrolls = scrolls,
                          !.timers = IF deferred THEN 1 ELSE 0]
            /\ UNCHANGED <<docVars, GOTO_TITLE_CLICKED, plVars, tocVars>>

\* reader.gotoPageInputField(e, scrollTo) with any other key: nothing is done
gotoPageInputFieldOtherKey ==
    /\ last' = [NoCall EXCEPT !.op = "gotoPageInputField", !.key = "a"]
    /\ UNCHANGED <<docVars, CURRENT_PAGE, GOTO_TITLE_CLICKED, content,
                   showPages, lastScroll, scrollTimers, plVars, tocVars>>

\* the callback of setTimeout(() => window.scrollTo({top: 0}), 10)
scrollTimerFires ==
    /\ scrollTimers > 0
    /\ scrollTimers' = scrollTimers - 1
    /\ lastScroll' = ScrollTop.kind
    /\ last' = [NoCall EXCEPT !.op = "scrollTimer", !.scrolls = <<ScrollTop>>]
    /\ UNCHANGED <<docVars, CURRENT_PAGE, GOTO_TITLE_CLICKED, content,
                   showPages, plVars, tocVars>>

(***************************************************************************)
(* gotoLine                                                                *)
(***************************************************************************)

findIndex_GreaterOrEqual(array, lineNumber) ==
    IF \E i \in DOMAIN array : array[i] >= lineNumber
      THEN (CHOOSE i \in DOMAIN array :
                /\ array[i] >= lineNumber
                /\ \A j \in 1..(i - 1) : ~(array[j] >= lineNumber)) - 1
      ELSE -1

findIndex_OneBased(array, lineNumber) ==
    IF \E i \in DOMAIN array : array[i] > lineNumber
      THEN (CHOOSE i \in DOMAIN array :
                /\ array[i] > lineNumber
                /\ \A j \in 1..(i - 1) : ~(array[j] > lineNumber))
      ELSE -1

\* array.findIndex((breakPoint) => breakPoint > lineNumber): the 0-based
\* index of the first such element, or -1
findIndex(array, lineNumber) ==
    IF \E i \in DOMAIN array : array[i] > lineNumber
      THEN (CHOOSE i \in DOMAIN array :
                /\ array[i] > lineNumber
                /\ \A j \in 1..(i - 1) : ~(array[j] > lineNumber)) - 1
      ELSE -1

\* the page gotoLine resolves for a line (needToGoPage)
needToGoPage(lineNumber) ==
    LET found == findIndex(PAGE_BREAKS, lineNumber)
        index == IF found = -1 THEN Len(PAGE_BREAKS) ELSE found
    IN  Max(1, Min(index, TOTAL_PAGES))

\* the documented scenario of line resolution
ScenarioPageBreaks == <<10, 25, 40>>

ScenarioLines == {9, 10, 39, 40, 1000}

\* the line numbers tried: those of the content buffer and, in a small
\* document, the first one beyond it
LineInputs ==
    IF PAGE_BREAKS \in {ScenarioPageBreaks, <<0>> \o ScenarioPageBreaks}
      THEN ScenarioLines
      ELSE 0..MaxLine

\* what CONFIG.DOM_ELEMENT.GET_LINE(lineNumber) can give while the container
\* shows rendering c: an element only for a line that is rendered, a
\* heading (H2) or another element, and null for any line
elementsOf(lineNumber, c) ==
    {"null"} \cup (IF lineNumber \in renderedLines(c) THEN {"H2", "other"} ELSE {})

\* setHistory(CONFIG.VARS.FILENAME, lineNumber) is the last statement of
\* gotoLine and stands outside its try block: the record of a call that
\* reached it, when the store took the entry and when the store failed and
\* its exception left gotoLine
historyWritten_FailureSwallowed(call, lineNumber, historyFails) ==
    [call EXCEPT !.history = IF historyFails THEN <<>> ELSE <<lineNumber>>,
                 !.historyFailed = historyFails,
                 !.ret = 0]

historyWritten(call, lineNumber, historyFails) ==
    IF historyFails
      THEN [call EXCEPT !.historyFailed = TRUE, !.threw = TRUE]
      ELSE [call EXCEPT !.history = <<lineNumber>>, !.ret = 0]

\* the history store takes the entry (FALSE) or fails (TRUE)
HistoryWriteFails == BOOLEAN

pageTransition_Always(target, current, scroll) ==
    gotoPageEffect(Num(target), "none", current, scroll)

\* if (needToGoPage !== CURRENT_PAGE) this.gotoPage(needToGoPage, false):
\* what the call leaves, or what is left alone when no call is made
\* (false is a scrollTo that is neither "top" nor "bottom")
pageTransition(target, current, scroll) ==
    IF target # current
      THEN gotoPageEffect(Num(target), "none", current, scroll)
      ELSE [CURRENT_PAGE |-> current, content |-> content,
            showPages |-> showPages, threw |-> FALSE,
            renders |-> 0, paginations |-> 0,
            scrolls |-> <<>>, lastScroll |-> scroll]

titlesMarked_EveryElement(isTitle, element, lineNumber) ==
    IF isTitle \/ element \in {"H2", "other"} THEN <<lineNumber>> ELSE <<>>

\* the setChapterTitleActive calls of a gotoLine call: one for a title, one
\* for a line whose element is a heading (H2), none otherwise
titlesMarked(isTitle, element, lineNumber) ==
    IF isTitle \/ element = "H2" THEN <<lineNumber>> ELSE <<>>

\* the scroll instructions of a gotoLine call for a line that is no title
lineScrolls(element, lineNumber) ==
    IF element = "H2" THEN <<ScrollHeading(lineNumber)>>
    ELSE IF element = "other" THEN <<ScrollLine(lineNumber)>>
    ELSE <<>>

\* reader.gotoLine(lineNumber, isTitle)
gotoLine ==
    \E lineNumber \in LineInputs, isTitle \in BOOLEAN,
       historyFails \in HistoryWriteFails :
      \E target \in {needToGoPage(lineNumber)} :
      \E e \in {pageTransition(target, CURRENT_PAGE, lastScroll)} :
        LET call == [NoCall EXCEPT
                       !.op = "gotoLine", !.lineNumber = lineNumber,
                       !.isTitle = isTitle, !.needToGoPage = target,
                       !.samePage = (e.CURRENT_PAGE = CURRENT_PAGE),
                       !.threw = e.threw,
                       !.renders = e.renders,
                       !.paginations = e.paginations,
                       !.scrolls = e.scrolls]
        IN  /\ CURRENT_PAGE' = e.CURRENT_PAGE
            /\ content' = e.content
            /\ showPages' = e.showPages
            /\ UNCHANGED <<docVars, scrollTimers, plVars, tocVars>>
            /\ IF e.threw
                 THEN \* the exception of gotoPage ends gotoLine
                      /\ ~historyFails
                      /\ last' = call
                      /\ lastScroll' = e.lastScroll
                      /\ UNCHANGED GOTO_TITLE_CLICKED
               ELSE IF isTitle
                 THEN /\ GOTO_TITLE_CLICKED' = TRUE
                      /\ lastScroll' = e.lastScroll
                      /\ last' = historyWritten(
                                    [call EXCEPT
                                       !.titles = titlesMarked(TRUE, "none",
                                                               lineNumber)],
                                    lineNumber, historyFails)
               ELSE \E element \in elementsOf(lineNumber, e.content) :
                    \E scrolls \in {lineScrolls(element, lineNumber)} :
                      /\ UNCHANGED GOTO_TITLE_CLICKED
                      /\ lastScroll' = IF scrolls = <<>> THEN e.lastScroll
                                       ELSE scrolls[Len(scrolls)].kind
                      /\ IF element = "null"
                           THEN \* no element: return -1 before setHistory
                                /\ ~historyFails
                                /\ last' = [call EXCEPT !.element = element,
                                                        !.ret = -1]
                           ELSE last' = historyWritten(
                                          [call EXCEPT
                                             !.element = element,
                                             !.scrolls = e.scrolls \o scrolls,
                                             !.titles = titlesMarked(FALSE, element,
                                                                     lineNumber)],
                                          lineNumber, historyFails)

(***************************************************************************)
(* processTOC: the afterRender callback of the table of contents.          *)
(***************************************************************************)

\* no table of contents is rendered
TocIdle ==
    /\ ALL_TITLES = <<>>
    /\ latestTitleIndex = -1
    /\ latestLineNum = -1
    /\ tocElements = {}
    /\ tocRenders = <<>>
    /\ tocEvents = <<>>

\* the title lists rendered: title i stands on line i + 1
TitleLists == {[i \in 1..n |-> i + 1] : n \in 0..MaxTitles}

\* an afterRender call that registered nothing, the title list being empty
NoRender ==
    [registered |-> FALSE,  \* ALL_TITLES was not empty
     observing |-> FALSE,   \* its MutationObserver is connected
     timer |-> FALSE,       \* its fallback timeout is pending
     events |-> 0,          \* tocRendered events it triggered
     warned |-> FALSE]      \* the warning of the fallback timeout was logged

\* document.querySelector(`#title_${this.latestLineNum}`) gives an element
elementFound(elements) == latestLineNum \in elements

\* tocConfig.generate(i): it notes the row generated last
generate ==
    /\ \E i \in 0..(Len(ALL_TITLES) - 1) :
         /\ ALL_TITLES # <<>>
         /\ latestTitleIndex' = i
         /\ latestLineNum' = ALL_TITLES[i + 1]
    /\ UNCHANGED <<ALL_TITLES, tocElements, tocRenders, tocEvents, navVars, plVars>>

\* tocConfig.afterRender(): with a title list that is not empty it connects
\* a MutationObserver to the container and sets the fallback timeout
afterRender ==
    /\ Len(tocRenders) < MaxRenders
    /\ tocRenders' =
         Append(tocRenders,
                IF Len(ALL_TITLES) > 0
                  THEN [NoRender EXCEPT !.registered = TRUE, !.observing = TRUE,
                                        !.timer = TRUE]
                  ELSE NoRender)
    /\ UNCHANGED <<ALL_TITLES, latestTitleIndex, latestLineNum, tocElements,
                   tocEvents, navVars, plVars>>

\* the MutationObserver callback of one render: when the element is there
\* it disconnects the observer and triggers tocRendered
observerCallback(render, elements) ==
    IF render.observing /\ elementFound(elements)
      THEN [render EXCEPT !.observing = FALSE, !.events = @ + 1]
      ELSE render

\* the title elements in the container change (rows are inserted or
\* removed), and the callback of every connected observer runs
tocMutation ==
    /\ \E elements \in SUBSET {ALL_TITLES[i] : i \in DOMAIN ALL_TITLES} :
         /\ elements # tocElements
         /\ tocElements' = elements
         /\ tocRenders' = [k \in DOMAIN tocRenders |->
                              observerCallback(tocRenders[k], elements)]
         /\ tocEvents' = tocEvents \o
                [j \in 1..Cardinality({k \in DOMAIN tocRenders :
                                          tocRenders[k].observing
                                          /\ elementFound(elements)})
                   |-> latestLineNum]
    /\ UNCHANGED <<ALL_TITLES, latestTitleIndex, latestLineNum, navVars, plVars>>

\* the callback of the fallback timeout of one render: when the element is
\* there it disconnects the observer and triggers tocRendered, otherwise it
\* logs the warning
fallbackTimeout(render, elements) ==
    IF elementFound(elements)
      THEN [render EXCEPT !.timer = FALSE, !.observing = FALSE,
                          !.events = @ + 1]
      ELSE [render EXCEPT !.timer = FALSE, !.warned = TRUE]

\* the fallback timeout set first expires (the timeouts have one delay)
tocTimeout ==
    /\ \E k \in DOMAIN tocRenders :
         /\ tocRenders[k].timer
         /\ \A j \in 1..(k - 1) : ~tocRenders[j].timer
         /\ \E after \in {fallbackTimeout(tocRenders[k], tocElements)} :
              /\ tocRenders' = [tocRenders EXCEPT ![k] = after]
              /\ tocEvents' = IF after.events > tocRenders[k].events
                                THEN Append(tocEvents, latestLineNum)
                                ELSE tocEvents
    /\ UNCHANGED <<ALL_TITLES, latestTitleIndex, latestLineNum, tocElements,
                   navVars, plVars>>

(***************************************************************************)
(* The documents navigated.                                                *)
(***************************************************************************)

\* the strictly increasing sequences of page starts 1..MaxLine
IncreasingBreaks ==
    {b \in UNION {[1..n -> 1..MaxLine] : n \in 0..MaxLine} :
        \A i, j \in DOMAIN b : i < j => b[i] < b[j]}

\* PAGE_BREAKS holds the first index of every page but the first, so that
\* TOTAL_PAGES is one more than its length
DocumentsWithoutFirstBreak ==
    {[breaks |-> b, total |-> Len(b) + 1, lines |-> MaxLine, processing |-> FALSE] :
        b \in IncreasingBreaks}

\* PAGE_BREAKS holds the first index of every page, that of page 1 being 0,
\* so that TOTAL_PAGES is its length
DocumentsWithFirstBreak ==
    {[breaks |-> <<0>> \o b, total |-> Len(b) + 1, lines |-> MaxLine,
      processing |-> FALSE] : b \in IncreasingBreaks}

\* the documented scenario: PageBreaks = [10, 25, 40], TotalPages = 4
ScenarioDocument ==
    [breaks |-> ScenarioPageBreaks, total |-> 4, lines |-> 50, processing |-> FALSE]

\* the same four pages with the start of page 1 in front: [0, 10, 25, 40]
ScenarioDocumentWithFirstBreak ==
    [breaks |-> <<0>> \o ScenarioPageBreaks, total |-> 4, lines |-> 50,
     processing |-> FALSE]

\* a document of more pages than the pagination strip has slots, one line
\* a page
ManyPagesBreaks == [i \in 1..NumPaginationItems |-> i]

\* the document whose pagination strip has gaps, paginated and still being
\* paginated
ManyPagesDocuments ==
    {[breaks |-> ManyPagesBreaks, total |-> Len(ManyPagesBreaks) + 1,
      lines |-> Len(ManyPagesBreaks) + 1, processing |-> p] : p \in BOOLEAN}

\* the documents navigated.  IS_PROCESSING is looked at by _getPageList alone,
\* and only for a document of more pages than the strip has slots.
Documents ==
    DocumentsWithoutFirstBreak \cup DocumentsWithFirstBreak
        \cup {ScenarioDocument, ScenarioDocumentWithFirstBreak}
        \cup ManyPagesDocuments

\* no _getPageList call of its own is made while navigating
PageListIdle ==
    /\ plArgs = [totalPages |-> 0, currentPage |-> 0, maxLength |-> 0,
                 duringProcessing |-> FALSE]
    /\ plOut = [threw |-> FALSE, list |-> <<>>]
    /\ plState = "navigation"

\* a document is loaded, its first page is current, nothing is rendered yet
Init ==
    /\ PageListIdle
    /\ TocIdle
    /\ \E doc \in Documents :
         /\ PAGE_BREAKS = doc.breaks
         /\ TOTAL_PAGES = doc.total
         /\ maxLines = doc.lines
         /\ IS_PROCESSING = doc.processing
    /\ ui_numPaginationItems = NumPaginationItems
    /\ CURRENT_PAGE = 1
    /\ GOTO_TITLE_CLICKED = FALSE
    /\ content = [startIndex |-> 0, endIndex |-> 0]
    /\ showPages = <<>>
    /\ lastScroll = NoScroll.kind
    /\ scrollTimers = 0
    /\ last = NoCall

Next ==
    \/ gotoPage
    \/ clickPrev
    \/ clickNext
    \/ clickPage
    \/ gotoPageInputField
    \/ gotoPageInputFieldOtherKey
    \/ scrollTimerFires
    \/ gotoLine

Spec == Init /\ [][Next]_vars

(***************************************************************************)
(* Calls of _getPageList on arbitrary arguments.                           *)
(***************************************************************************)

\* no document is navigated while _getPageList is called on its own
NavigationIdle ==
    /\ PAGE_BREAKS = <<>>
    /\ TOTAL_PAGES = 1
    /\ maxLines = 0
    /\ IS_PROCESSING = FALSE
    /\ ui_numPaginationItems = NumPaginationItems
    /\ CURRENT_PAGE = 1
    /\ GOTO_TITLE_CLICKED = FALSE
    /\ content = [startIndex |-> 0, endIndex |-> 0]
    /\ showPages = <<>>
    /\ lastScroll = NoScroll.kind
    /\ scrollTimers = 0
    /\ last = NoCall


\* totalPages handed to _getPageList: every small count, and the 100 pages
\* of the documented scenario
TotalPagesInputs == (0..MaxTotalPages) \cup {100}

\* currentPage handed to _getPageList: the valid pages 1..totalPages and one
\* value on either side
CurrentPageInputs(totalPages) == 0..(totalPages + 1)

MaxLengthInputs == 0..MaxMaxLength

\* the arguments of the call are chosen before it
InitPageList ==
    /\ \E totalPages \in TotalPagesInputs, maxLength \in MaxLengthInputs,
          duringProcessing \in BOOLEAN :
         \E currentPage \in CurrentPageInputs(totalPages) :
           plArgs = [totalPages |-> totalPages, currentPage |-> currentPage,
                     maxLength |-> maxLength,
                     duringProcessing |-> duringProcessing]
    /\ plOut = [threw |-> FALSE, list |-> <<>>]
    /\ plState = "idle"
    /\ NavigationIdle
    /\ TocIdle

\* one call of _getPageList on the chosen arguments
CallGetPageList ==
    /\ plState = "idle"
    /\ LET out == getPageList(plArgs.totalPages, plArgs.currentPage,
                              plArgs.maxLength, plArgs.duringProcessing)
       IN  /\ plOut' = out
           /\ plState' = IF out.threw THEN "threw" ELSE "returned"
    /\ UNCHANGED <<plArgs, navVars, tocVars>>

NextPageList == CallGetPageList

SpecPageList == InitPageList /\ [][NextPageList]_vars

(***************************************************************************)
(* Renders of the table of contents.                                       *)
(***************************************************************************)

\* processTOC is called on a title list; no row is generated yet
InitTOC ==
    /\ ALL_TITLES \in TitleLists
    /\ latestTitleIndex = -1
    /\ latestLineNum = -1
    /\ tocElements = {}
    /\ tocRenders = <<>>
    /\ tocEvents = <<>>
    /\ NavigationIdle
    /\ PageListIdle

NextTOC ==
    \/ generate
    \/ afterRender
    \/ tocMutation
    \/ tocTimeout

SpecTOC == InitTOC /\ [][NextTOC]_vars

(***************************************************************************)
(* Properties of _getPageList (checked under SpecPageList).                *)
(***************************************************************************)

plCalled == plState # "idle"

plReturned == plState = "returned"

\* the preconditions of the page-list computation
plValidArgs ==
    /\ plArgs.maxLength >= 5
    /\ 1 <= plArgs.currentPage
    /\ plArgs.currentPage <= plArgs.totalPages

\* the pages 1, 2, ..., n
Pages1To(n) == [i \in 1..n |-> i]

GapCount(list) == Cardinality({i \in DOMAIN list : list[i] = Gap})

IsPrefix(s, t) == Len(s) <= Len(t) /\ \A i \in 1..Len(s) : s[i] = t[i]

IsStrictPrefix(s, t) == IsPrefix(s, t) /\ Len(s) < Len(t)

\* what the same call returns when content is not being processed
plListNotProcessing ==
    getPageList(plArgs.totalPages, plArgs.currentPage, plArgs.maxLength, FALSE).list

\* C1: whenever totalPages <= maxLength and maxLength >= 5, whatever
\* currentPage and duringProcessing are, the call returns exactly the
\* pages 1, 2, ..., totalPages, none of them a gap marker.
C1_FullFit ==
    (plCalled /\ plArgs.maxLength >= 5 /\ plArgs.totalPages <= plArgs.maxLength)
        => /\ plReturned
           /\ plOut.list = Pages1To(plArgs.totalPages)
           /\ GapCount(plOut.list) = 0

C1_Witness ==
    /\ plReturned
    /\ plArgs.totalPages = 6 /\ plArgs.maxLength = 7
    /\ plArgs.duringProcessing
    /\ plOut.list = <<1, 2, 3, 4, 5, 6>>

\* C2: a call with maxLength < 5 throws whatever the other arguments are,
\* also when totalPages <= maxLength; a call with maxLength = 5 returns a
\* list.
C2_Precondition ==
    /\ (plCalled /\ plArgs.maxLength < 5) => plState = "threw"
    /\ (plCalled /\ plArgs.maxLength = 5) => plReturned

C2_Witness ==
    /\ plState = "threw"
    /\ plArgs.maxLength = 4
    /\ plArgs.totalPages = 3 /\ plArgs.currentPage = 1

\* C3: for valid arguments with totalPages > maxLength the returned list
\* holds at most 2 gap markers, and exactly 1 when currentPage is in the
\* near-start or the near-end case.
C3_GapCountBound ==
    (plReturned /\ plValidArgs /\ plArgs.totalPages > plArgs.maxLength)
        => /\ GapCount(plOut.list) <= 2
           /\ (\/ nearStart(plArgs.currentPage, plArgs.maxLength)
               \/ nearEnd(plArgs.totalPages, plArgs.currentPage, plArgs.maxLength))
                  => GapCount(plOut.list) = 1

C3_Witness ==
    /\ plReturned /\ plValidArgs
    /\ plArgs.totalPages > plArgs.maxLength
    /\ ~nearStart(plArgs.currentPage, plArgs.maxLength)
    /\ nearEnd(plArgs.totalPages, plArgs.currentPage, plArgs.maxLength)
    /\ GapCount(plOut.list) = 1

\* C4: in every list returned for valid arguments, two neighbouring entries
\* that are both page numbers (no gap marker between them) differ by
\* exactly one, the later being the larger.
C4_MonotonicWindows ==
    (plReturned /\ plValidArgs)
        => \A i \in 1..(Len(plOut.list) - 1) :
              (plOut.list[i] # Gap /\ plOut.list[i + 1] # Gap)
                  => plOut.list[i + 1] = plOut.list[i] + 1

C4_Witness ==
    /\ plReturned /\ plValidArgs
    /\ ~plArgs.duringProcessing
    /\ plArgs.totalPages > plArgs.maxLength
    /\ nearStart(plArgs.currentPage, plArgs.maxLength)
    /\ GapCount(plOut.list) = 1
    /\ Len(plOut.list) >= 5

\* C5 as stated: for any valid arguments the list returned with
\* duringProcessing = true is a strict prefix of the list returned with
\* duringProcessing = false.
C5_StrictPrefixAlways ==
    (plReturned /\ plValidArgs /\ plArgs.duringProcessing)
        => IsStrictPrefix(plOut.list, plListNotProcessing)

\* C5 as amended: for valid arguments the list returned with
\* duringProcessing = true is a strict prefix of the list returned with
\* duringProcessing = false when totalPages > maxLength, and is equal to
\* it when totalPages <= maxLength.
C5_ProcessingTruncation ==
    (plReturned /\ plValidArgs /\ plArgs.duringProcessing)
        => IF plArgs.totalPages > plArgs.maxLength
             THEN IsStrictPrefix(plOut.list, plListNotProcessing)
             ELSE plOut.list = plListNotProcessing

C5_Witness ==
    /\ plReturned /\ plValidArgs /\ plArgs.duringProcessing
    /\ plArgs.totalPages > plArgs.maxLength
    /\ nearStart(plArgs.currentPage, plArgs.maxLength)
    /\ Len(plOut.list) < Len(plListNotProcessing)

\* the documented scenario: 100 pages, page 1 current, 7 slots
plScenario ==
    /\ plArgs.totalPages = 100
    /\ plArgs.currentPage = 1
    /\ plArgs.maxLength = 7
    /\ ~plArgs.duringProcessing

\* C6 as stated: the scenario call returns 1,2,3,4, one gap marker, 99,100.
C6_ScenarioAsStated ==
    (plCalled /\ plScenario) => plOut.list = <<1, 2, 3, 4, Gap, 99, 100>>

\* C6 as amended: the scenario call returns the leading run 1,2,3,4,5,
\* one gap marker, and the single trailing page 100.
C6_Scenario ==
    (plCalled /\ plScenario)
        => plReturned /\ plOut.list = <<1, 2, 3, 4, 5, Gap, 100>>

C6_Witness == plReturned /\ plScenario /\ Len(plOut.list) = 7

\* C7: for valid arguments the returned list has at most maxLength entries,
\* gap markers included, and exactly maxLength entries when
\* totalPages > maxLength and duringProcessing is false.
C7_Length ==
    (plReturned /\ plValidArgs)
        => /\ Len(plOut.list) <= plArgs.maxLength
           /\ (plArgs.totalPages > plArgs.maxLength /\ ~plArgs.duringProcessing)
                  => Len(plOut.list) = plArgs.maxLength

C7_Witness ==
    /\ plReturned /\ plValidArgs
    /\ ~plArgs.duringProcessing
    /\ plArgs.totalPages > plArgs.maxLength
    /\ ~nearStart(plArgs.currentPage, plArgs.maxLength)
    /\ ~nearEnd(plArgs.totalPages, plArgs.currentPage, plArgs.maxLength)
    /\ GapCount(plOut.list) = 2
    /\ Len(plOut.list) = plArgs.maxLength

\* the pages a, a + 1, ..., b
PagesFromTo(a, b) == [i \in 1..(b - a + 1) |-> a + i - 1]

\* the widths as documented: sideWidth = 1 if maxLength < 9 else 2,
\* leftWidth = floor((maxLength - 2*sideWidth - 3) / 2),
\* rightWidth = floor((maxLength - 2*sideWidth - 2) / 2)
plSide == IF plArgs.maxLength < 9 THEN 1 ELSE 2

plLeft == (plArgs.maxLength - 2 * plSide - 3) \div 2

plRight == (plArgs.maxLength - 2 * plSide - 2) \div 2

\* the three cases of a call with totalPages > maxLength, as documented
plNearStartCase ==
    /\ plArgs.maxLength >= 5
    /\ plArgs.totalPages > plArgs.maxLength
    /\ plArgs.currentPage <= plArgs.maxLength - plSide - 1 - plRight

plNearEndCase ==
    /\ plValidArgs
    /\ plArgs.totalPages > plArgs.maxLength
    /\ ~(plArgs.currentPage <= plArgs.maxLength - plSide - 1 - plRight)
    /\ plArgs.currentPage >= plArgs.totalPages - plSide - 1 - plRight

plMiddleCase ==
    /\ plValidArgs
    /\ plArgs.totalPages > plArgs.maxLength
    /\ ~(plArgs.currentPage <= plArgs.maxLength - plSide - 1 - plRight)
    /\ ~(plArgs.currentPage >= plArgs.totalPages - plSide - 1 - plRight)

\* C18: in the near-start case (totalPages > maxLength and currentPage <=
\* maxLength - sideWidth - 1 - rightWidth) the call returns, when content
\* is not being processed, the pages 1..(maxLength - sideWidth - 1), one
\* gap marker and the pages (totalPages - sideWidth + 1)..totalPages, and
\* during processing only that leading run followed by the gap marker.
C18_NearStartCase ==
    (plCalled /\ plNearStartCase)
        => /\ plReturned
           /\ plOut.list =
                 IF plArgs.duringProcessing
                   THEN Pages1To(plArgs.maxLength - plSide - 1) \o <<Gap>>
                   ELSE Pages1To(plArgs.maxLength - plSide - 1) \o <<Gap>>
                          \o PagesFromTo(plArgs.totalPages - plSide + 1,
                                         plArgs.totalPages)

C18_Witness ==
    /\ plReturned /\ plNearStartCase
    /\ plArgs.totalPages = 12 /\ plArgs.maxLength = 7
    /\ plArgs.currentPage = 4
    /\ plArgs.duringProcessing
    /\ plOut.list = <<1, 2, 3, 4, 5, Gap>>

\* C19: in the near-end case (totalPages > maxLength, currentPage not in
\* the near-start case, currentPage >= totalPages - sideWidth - 1 -
\* rightWidth) the call returns, when content is not being processed, the
\* pages 1..sideWidth, one gap marker and a run of consecutive pages that
\* ends at totalPages and holds currentPage, and during processing only
\* the pages 1..sideWidth followed by the gap marker.
C19_NearEndCase ==
    (plCalled /\ plNearEndCase)
        => /\ plReturned
           /\ IF plArgs.duringProcessing
                THEN plOut.list = Pages1To(plSide) \o <<Gap>>
                ELSE \E a \in 1..plArgs.currentPage :
                       plOut.list = Pages1To(plSide) \o <<Gap>>
                                      \o PagesFromTo(a, plArgs.totalPages)

C19_Witness ==
    /\ plReturned /\ plNearEndCase
    /\ plArgs.totalPages = 12 /\ plArgs.maxLength = 7
    /\ plArgs.currentPage = 9
    /\ ~plArgs.duringProcessing
    /\ plOut.list = <<1, Gap, 8, 9, 10, 11, 12>>

\* C20: in the middle case (totalPages > maxLength, currentPage in neither
\* the near-start nor the near-end case) the call returns, when content is
\* not being processed, the pages 1..sideWidth, a gap marker, the window
\* (currentPage - leftWidth)..(currentPage + rightWidth), a gap marker and
\* the pages (totalPages - sideWidth + 1)..totalPages, for the widths as
\* documented.
C20_MiddleCase ==
    (plCalled /\ plMiddleCase /\ ~plArgs.duringProcessing)
        => /\ plReturned
           /\ plOut.list =
                 Pages1To(plSide) \o <<Gap>>
                   \o PagesFromTo(plArgs.currentPage - plLeft,
                                  plArgs.currentPage + plRight)
                   \o <<Gap>>
                   \o PagesFromTo(plArgs.totalPages - plSide + 1,
                                  plArgs.totalPages)

C20_Witness ==
    /\ plReturned /\ plMiddleCase
    /\ plArgs.totalPages = 14 /\ plArgs.maxLength = 10
    /\ plArgs.currentPage = 7
    /\ ~plArgs.duringProcessing
    /\ plOut.list = <<1, 2, Gap, 6, 7, 8, 9, Gap, 13, 14>>

\* C21 as stated: in the middle case during processing the call returns
\* the pages 1..sideWidth, one gap marker and the window
\* (currentPage - leftWidth)..(currentPage + rightWidth), with no gap
\* marker and no pages after it: the last entry is currentPage + rightWidth.
C21_MiddleProcessingAsStated ==
    (plCalled /\ plMiddleCase /\ plArgs.duringProcessing)
        => /\ plOut.list =
                 Pages1To(plSide) \o <<Gap>>
                   \o PagesFromTo(plArgs.currentPage - plLeft,
                                  plArgs.currentPage + plRight)
           /\ plOut.list[Len(plOut.list)] = plArgs.currentPage + plRight

\* C21 as amended: in the middle case during processing the call returns
\* the pages 1..sideWidth, a gap marker, the window
\* (currentPage - leftWidth)..(currentPage + rightWidth) and a second gap
\* marker, with no pages after it: the last entry is a gap marker and the
\* last page is currentPage + rightWidth.
C21_MiddleProcessing ==
    (plCalled /\ plMiddleCase /\ plArgs.duringProcessing)
        => /\ plReturned
           /\ plOut.list =
                 Pages1To(plSide) \o <<Gap>>
                   \o PagesFromTo(plArgs.currentPage - plLeft,
                                  plArgs.currentPage + plRight)
                   \o <<Gap>>
           /\ plOut.list[Len(plOut.list)] = Gap
           /\ plOut.list[Len(plOut.list) - 1] = plArgs.currentPage + plRight

C21_Witness ==
    /\ plReturned /\ plMiddleCase
    /\ plArgs.totalPages = 14 /\ plArgs.maxLength = 10
    /\ plArgs.currentPage = 7
    /\ plArgs.duringProcessing
    /\ plOut.list = <<1, 2, Gap, 6, 7, 8, 9, Gap>>

\* the entries of a list that are page numbers, in order
RECURSIVE PagesOf(_)
PagesOf(list) ==
    IF list = <<>> THEN <<>>
    ELSE IF Head(list) = Gap THEN PagesOf(Tail(list))
    ELSE <<Head(list)>> \o PagesOf(Tail(list))

\* C26: in every list returned for valid arguments the entries that are
\* not gap markers are page numbers within 1..totalPages (so that 0 stands
\* for a gap only) and, read from left to right over the whole list, they
\* increase strictly: no page number occurs twice.
C26_PagesIncrease ==
    (plReturned /\ plValidArgs)
        => /\ \A i \in DOMAIN plOut.list :
                 plOut.list[i] = Gap \/ plOut.list[i] \in 1..plArgs.totalPages
           /\ \A i, j \in DOMAIN PagesOf(plOut.list) :
                 i < j => PagesOf(plOut.list)[i] < PagesOf(plOut.list)[j]

C26_Witness ==
    /\ plReturned /\ plValidArgs
    /\ plArgs.totalPages > plArgs.maxLength
    /\ GapCount(plOut.list) = 2
    /\ Len(PagesOf(plOut.list)) = plArgs.maxLength - 2
    /\ PagesOf(plOut.list)[1] = 1
    /\ PagesOf(plOut.list)[Len(PagesOf(plOut.list))] = plArgs.totalPages

\* C27: in every list returned for valid arguments while content is not
\* being processed, a gap marker is neither the first nor the last entry,
\* and the page before it and the page after it differ by at least 2: the
\* gap stands for at least one page.
C27_GapsOmitPages ==
    (plReturned /\ plValidArgs /\ ~plArgs.duringProcessing)
        => \A i \in DOMAIN plOut.list :
              plOut.list[i] = Gap
                  => /\ 1 < i /\ i < Len(plOut.list)
                     /\ plOut.list[i - 1] # Gap
                     /\ plOut.list[i + 1] # Gap
                     /\ plOut.list[i + 1] - plOut.list[i - 1] >= 2

C27_Witness ==
    /\ plReturned /\ plValidArgs /\ ~plArgs.duringProcessing
    /\ plMiddleCase
    /\ plArgs.currentPage = plArgs.maxLength - plSide - plRight
    /\ GapCount(plOut.list) = 2

\* how often a page occurs in a list
Occurrences(list, page) == Cardinality({i \in DOMAIN list : list[i] = page})

\* C28 as stated: for valid arguments and either value of duringProcessing
\* currentPage occurs exactly once in the returned list.
C28_CurrentPageOnceAlways ==
    (plReturned /\ plValidArgs)
        => Occurrences(plOut.list, plArgs.currentPage) = 1

\* C28 as amended: for valid arguments currentPage occurs exactly once in
\* the returned list, except in the near-end case during processing, where
\* the list is the pages 1..sideWidth and a gap marker and does not hold
\* currentPage.
C28_CurrentPageOnce ==
    (plReturned /\ plValidArgs)
        => IF plNearEndCase /\ plArgs.duringProcessing
             THEN Occurrences(plOut.list, plArgs.currentPage) = 0
             ELSE Occurrences(plOut.list, plArgs.currentPage) = 1

C28_Witness ==
    /\ plReturned /\ plValidArgs
    /\ plNearEndCase /\ plArgs.duringProcessing
    /\ plArgs.totalPages = 12 /\ plArgs.maxLength = 7
    /\ plArgs.currentPage = 12
    /\ plOut.list = <<1, Gap>>

(***************************************************************************)
(* Properties of navigation (checked under Spec).                          *)
(***************************************************************************)

\* p brought into 1..TOTAL_PAGES
ClampedToPages(p) ==
    IF p < 1 THEN 1 ELSE IF p > TOTAL_PAGES THEN TOTAL_PAGES ELSE p

\* C8: gotoPage(0, ...) leaves CURRENT_PAGE = 1, gotoPage(TOTAL_PAGES + 5, ...)
\* leaves CURRENT_PAGE = TOTAL_PAGES, gotoPage with any integer p leaves
\* CURRENT_PAGE = max(1, min(p, TOTAL_PAGES)), and no gotoPage call ends by
\* an exception, whatever page was requested.
C8_GotoPageClamps ==
    (last.op = "gotoPage")
        => /\ ~last.threw
           /\ ~isNaN(last.page)
                 => /\ CURRENT_PAGE = ClampedToPages(last.page.val)
                    /\ last.page.val = 0 => CURRENT_PAGE = 1
                    /\ last.page.val = TOTAL_PAGES + 5
                          => CURRENT_PAGE = TOTAL_PAGES

C8_Witness ==
    /\ last.op = "gotoPage"
    /\ last.page = Num(TOTAL_PAGES + 5)
    /\ TOTAL_PAGES >= 3
    /\ CURRENT_PAGE = TOTAL_PAGES
    /\ ~last.samePage
    /\ ~last.threw

\* C9: after any sequence of navigation operations (gotoPage, the page jump
\* input, gotoLine, the previous-page and next-page buttons, the page
\* buttons) CURRENT_PAGE is an integer with 1 <= CURRENT_PAGE <= TOTAL_PAGES.
C9_CurrentPageInRange ==
    /\ CURRENT_PAGE \in Int
    /\ 1 <= CURRENT_PAGE
    /\ CURRENT_PAGE <= TOTAL_PAGES

C9_Witness ==
    /\ last.op = "gotoPageInputField"
    /\ last.text = <<"-", "1">>
    /\ TOTAL_PAGES >= 3
    /\ CURRENT_PAGE = 1
    /\ ~last.samePage

\* the 1-based position of the first entry greater than the line, 0 if none
FirstGreater(array, lineNumber) ==
    IF \E i \in DOMAIN array : array[i] > lineNumber
      THEN CHOOSE i \in DOMAIN array :
               /\ array[i] > lineNumber
               /\ \A j \in 1..(i - 1) : array[j] <= lineNumber
      ELSE 0

\* how many entries are not greater than the line
EntriesNotGreater(array, lineNumber) ==
    Cardinality({i \in DOMAIN array : array[i] <= lineNumber})

\* the pages stated for the lines 9, 10, 39, 40 and 1000
StatedScenarioPage(lineNumber) ==
    CASE lineNumber = 9 -> 1
      [] lineNumber = 10 -> 2
      [] lineNumber = 39 -> 3
      [] lineNumber = 40 -> 4
      [] lineNumber = 1000 -> 4

\* the pages gotoLine resolves for them when PAGE_BREAKS is [10, 25, 40]
ResolvedScenarioPage(lineNumber) ==
    CASE lineNumber = 9 -> 1
      [] lineNumber = 10 -> 1
      [] lineNumber = 39 -> 2
      [] lineNumber = 40 -> 3
      [] lineNumber = 1000 -> 3

\* C10 as stated: with PAGE_BREAKS of length TOTAL_PAGES - 1, gotoLine
\* resolves the 1-based index of the first entry strictly greater than the
\* line, or TOTAL_PAGES when no entry is greater; with PAGE_BREAKS =
\* [10, 25, 40] and TOTAL_PAGES = 4 the lines 9, 10, 39, 40, 1000 resolve to
\* the pages 1, 2, 3, 4, 4.
C10_ResolutionAsStated ==
    (last.op = "gotoLine" /\ Len(PAGE_BREAKS) = TOTAL_PAGES - 1)
        => /\ last.needToGoPage =
                 IF FirstGreater(PAGE_BREAKS, last.lineNumber) = 0
                   THEN TOTAL_PAGES
                   ELSE FirstGreater(PAGE_BREAKS, last.lineNumber)
           /\ (PAGE_BREAKS = ScenarioPageBreaks /\ TOTAL_PAGES = 4)
                 => last.needToGoPage = StatedScenarioPage(last.lineNumber)

\* C10 as amended: gotoLine resolves the number of PAGE_BREAKS entries not
\* greater than the line (the 0-based index of the first entry strictly
\* greater than it, the length of PAGE_BREAKS when no entry is greater),
\* brought into 1..TOTAL_PAGES, and makes that page current.  With
\* PAGE_BREAKS = [10, 25, 40] and TOTAL_PAGES = 4 the lines 9, 10, 39, 40,
\* 1000 resolve to the pages 1, 1, 2, 3, 3; they resolve to 1, 2, 3, 4, 4
\* with PAGE_BREAKS = [0, 10, 25, 40], whose length is TOTAL_PAGES.
C10_Resolution ==
    (last.op = "gotoLine")
        => /\ last.needToGoPage =
                 ClampedToPages(EntriesNotGreater(PAGE_BREAKS, last.lineNumber))
           /\ ~last.threw => CURRENT_PAGE = last.needToGoPage
           /\ (PAGE_BREAKS = ScenarioPageBreaks /\ TOTAL_PAGES = 4)
                 => last.needToGoPage = ResolvedScenarioPage(last.lineNumber)
           /\ (PAGE_BREAKS = <<0>> \o ScenarioPageBreaks /\ TOTAL_PAGES = 4)
                 => last.needToGoPage = StatedScenarioPage(last.lineNumber)

C10_Witness ==
    /\ last.op = "gotoLine"
    /\ PAGE_BREAKS = ScenarioPageBreaks
    /\ TOTAL_PAGES = 4
    /\ last.lineNumber = 40
    /\ last.needToGoPage = 3
    /\ CURRENT_PAGE = 3
    /\ ~last.samePage

\* C11: gotoPage(p) called while CURRENT_PAGE = p leaves CURRENT_PAGE as it
\* was, and still calls showCurrentPageContent exactly once and
\* generatePagination exactly once, so that the page's range and page list
\* are the ones rendered, and carries out the scroll its scrollTo asks for.
C11_NoOpRefresh ==
    (/\ last.op = "gotoPage"
     /\ ~isNaN(last.page)
     /\ last.samePage
     /\ last.page.val = CURRENT_PAGE)
        => /\ last.renders = 1
           /\ last.paginations = 1
           /\ content.startIndex = elementOr(PAGE_BREAKS, CURRENT_PAGE - 1, 0)
           /\ content.endIndex = elementOr(PAGE_BREAKS, CURRENT_PAGE, maxLines)
           /\ showPages # <<>>
           /\ last.scrollTo = "top" => last.scrolls = <<ScrollTop>>
           /\ last.scrollTo = "bottom" => last.scrolls = <<ScrollBottom>>

C11_Witness ==
    /\ last.op = "gotoPage"
    /\ last.page = Num(2)
    /\ last.samePage
    /\ CURRENT_PAGE = 2
    /\ last.scrollTo = "bottom"
    /\ last.renders = 1
    /\ last.paginations = 1
    /\ last.scrolls = <<ScrollBottom>>

\* the call is gotoPage or a page jump input confirmed by Enter
pageJumpCalled ==
    \/ last.op = "gotoPage"
    \/ last.op = "gotoPageInputField" /\ last.key = "Enter"

\* C12: when the page argument is not a number (gotoPage(NaN), or a page
\* jump input whose text does not parse), CURRENT_PAGE keeps its value, no
\* exception ends the call, and the call has the render, pagination and
\* scroll effects of gotoPage(CURRENT_PAGE, scrollTo).
C12_NotANumberRefresh ==
    (pageJumpCalled /\ isNaN(last.page))
        => /\ last.samePage
           /\ ~last.threw
           /\ \A e \in {gotoPageEffect(Num(CURRENT_PAGE), last.scrollTo,
                                        CURRENT_PAGE, lastScroll)} :
                 /\ content = e.content
                 /\ showPages = e.showPages
                 /\ last.renders = e.renders
                 /\ last.paginations = e.paginations
                 /\ last.scrolls = e.scrolls

\* the outcome of gotoLine the documentation calls LineNotFound: navigation
\* to a line that is no title, and GET_LINE gave no element
lineNotFound ==
    /\ last.op = "gotoLine"
    /\ ~last.isTitle
    /\ last.element = "null"

\* C13: a gotoLine call that does not end in LineNotFound writes exactly
\* one history entry, that of its line, and returns 0; a call that ends in
\* LineNotFound writes no history entry and returns -1.
C13_HistoryOnSuccess ==
    (last.op = "gotoLine")
        => IF lineNotFound
             THEN last.history = <<>> /\ ~last.threw /\ last.ret = -1
             ELSE /\ last.history = <<last.lineNumber>>
                  /\ ~last.threw
                  /\ last.ret = 0

\* C14: a gotoLine(lineNumber, false) call that ends in LineNotFound leaves
\* CURRENT_PAGE, the rendered content range and the scroll position as
\* they were before the call, also when the line resolves to another page.
C14_LineNotFoundLeavesState ==
    [][(/\ last'.op = "gotoLine"
        /\ ~last'.isTitle
        /\ last'.element = "null")
          => /\ CURRENT_PAGE' = CURRENT_PAGE
             /\ content' = content
             /\ lastScroll' = lastScroll]_vars

NavigationOps == {"gotoPage", "gotoPageInputField", "gotoLine"}

\* C15: every navigation operation has carried out all of its effects,
\* the scroll included, when it returns, and leaves no deferred work: no
\* timer is pending after it, and nothing scrolls the window outside a
\* navigation operation, so the scroll of the later operation stands.
C15_SynchronousCompletion ==
    /\ last.op \in NavigationOps => last.timers = 0 /\ scrollTimers = 0
    /\ last.scrolls # <<>> => last.op \in NavigationOps \cup {"clickPrev", "clickNext", "clickPage"}

\* C17: a gotoLine call whose setHistory fails still has made its page
\* transition and handled the title or the scroll, and returns to its
\* caller without an exception.
C17_HistoryFailureContained ==
    (last.op = "gotoLine" /\ last.historyFailed)
        => /\ CURRENT_PAGE = last.needToGoPage
           /\ last.isTitle => last.titles = <<last.lineNumber>>
           /\ ~last.isTitle => last.scrolls # <<>>
           /\ ~last.threw

\* PAGE_BREAKS holds the first line of every page but the first
breaksWithoutFirst == Len(PAGE_BREAKS) = TOTAL_PAGES - 1

\* PAGE_BREAKS holds the first line of every page, 0 for page 1
breaksWithFirst == Len(PAGE_BREAKS) = TOTAL_PAGES /\ PAGE_BREAKS[1] = 0

\* the lines showCurrentPageContent shows for page p
pageLines(p) == renderedLines(showCurrentPageContent(p))

\* the ranges of the pages 1..TOTAL_PAGES are pairwise disjoint and cover
\* exactly the lines of the content buffer
pagesPartitionBuffer ==
    /\ \A p, q \in 1..TOTAL_PAGES : p # q => pageLines(p) \cap pageLines(q) = {}
    /\ UNION {pageLines(p) : p \in 1..TOTAL_PAGES} = 0..(maxLines - 1)

\* C22 as stated: with PAGE_BREAKS of length TOTAL_PAGES - 1 the page
\* rendered is [start, end), where page 1 starts at 0, page i + 1 starts at
\* the i-th entry of PAGE_BREAKS, a page ends where the next one starts and
\* the last page ends at the length of the buffer; the ranges of the pages
\* 1..TOTAL_PAGES are pairwise disjoint and cover exactly the buffer.
C22_PageRangesAsStated ==
    (last.renders >= 1 /\ breaksWithoutFirst)
        => /\ content.startIndex =
                 IF CURRENT_PAGE = 1 THEN 0 ELSE PAGE_BREAKS[CURRENT_PAGE - 1]
           /\ content.endIndex =
                 IF CURRENT_PAGE = TOTAL_PAGES THEN maxLines
                 ELSE PAGE_BREAKS[CURRENT_PAGE]
           /\ pagesPartitionBuffer

\* C22 as amended: with PAGE_BREAKS of length TOTAL_PAGES whose first entry
\* is 0, the page p rendered is [start, end), where start is the p-th entry
\* of PAGE_BREAKS (0 for page 1), a page ends where the next one starts and
\* the last page ends at the length of the buffer; the ranges of the pages
\* 1..TOTAL_PAGES are pairwise disjoint and cover exactly the buffer.
C22_PageRanges ==
    (last.renders >= 1 /\ breaksWithFirst)
        => /\ content.startIndex = PAGE_BREAKS[CURRENT_PAGE]
           /\ content.endIndex =
                 IF CURRENT_PAGE = TOTAL_PAGES THEN maxLines
                 ELSE PAGE_BREAKS[CURRENT_PAGE + 1]
           /\ pagesPartitionBuffer

C22_Witness ==
    /\ last.op = "gotoPage"
    /\ last.renders = 1
    /\ breaksWithFirst
    /\ TOTAL_PAGES = 3
    /\ CURRENT_PAGE = 2
    /\ content = [startIndex |-> 1, endIndex |-> 2]
    /\ pageLines(1) = {0}
    /\ pageLines(2) = {1}

\* C23: gotoLine makes a page transition only when the page it resolved is
\* not the current one, and makes it as gotoPage(page, false): one render,
\* one pagination, the resolved page current, and neither a scroll to the
\* top nor a scroll to the bottom.  When the resolved page is the current
\* one nothing is rendered, the pagination is not computed and
\* CURRENT_PAGE, the content and the page list stay what they were.
C23_TransitionOnlyWhenNeeded ==
    [][(last'.op = "gotoLine")
          => /\ IF last'.needToGoPage = CURRENT_PAGE
                  THEN /\ last'.renders = 0
                       /\ last'.paginations = 0
                       /\ CURRENT_PAGE' = CURRENT_PAGE
                       /\ content' = content
                       /\ showPages' = showPages
                  ELSE /\ last'.renders = 1
                       /\ last'.paginations = 1
                       /\ CURRENT_PAGE' = last'.needToGoPage
                       /\ content' = showCurrentPageContent(last'.needToGoPage)
             /\ \A i \in DOMAIN last'.scrolls :
                   last'.scrolls[i] \notin {ScrollTop, ScrollBottom}
             /\ lastScroll' \in {lastScroll, ScrollLine(0).kind,
                                 ScrollHeading(0).kind}]_vars

C23_Witness ==
    /\ last.op = "gotoLine"
    /\ last.samePage
    /\ last.needToGoPage = CURRENT_PAGE
    /\ CURRENT_PAGE = 2
    /\ last.renders = 0
    /\ last.paginations = 0
    /\ last.element = "other"
    /\ last.scrolls = <<ScrollLine(last.lineNumber)>>

\* C24: gotoLine(lineNumber, true) marks the title active, sets
\* GOTO_TITLE_CLICKED, writes the history entry of the line and returns 0
\* for every lineNumber, without looking the line up in the DOM; it never
\* ends in LineNotFound.
C24_TitleNavigationSucceeds ==
    (last.op = "gotoLine" /\ last.isTitle)
        => /\ last.titles = <<last.lineNumber>>
           /\ GOTO_TITLE_CLICKED
           /\ last.element = "none"
           /\ last.history = <<last.lineNumber>>
           /\ ~last.threw
           /\ last.ret = 0

\* C25: a gotoLine call calls setChapterTitleActive exactly once, for its
\* line, when isTitle is true or when isTitle is false and the element of
\* the line is a heading, and not at all otherwise; navigation to a line
\* that is neither a title nor a heading, and LineNotFound, mark no title
\* and leave GOTO_TITLE_CLICKED as it was.
C25_TitleMarkedOnce ==
    [][(last'.op = "gotoLine")
          => IF last'.isTitle \/ last'.element = "H2"
               THEN last'.titles = <<last'.lineNumber>>
               ELSE /\ last'.titles = <<>>
                    /\ GOTO_TITLE_CLICKED' = GOTO_TITLE_CLICKED]_vars

C25_Witness ==
    /\ last.op = "gotoLine"
    /\ ~last.isTitle
    /\ last.element = "H2"
    /\ last.titles = <<last.lineNumber>>
    /\ last.scrolls = <<ScrollHeading(last.lineNumber)>>
    /\ ~GOTO_TITLE_CLICKED

\* the line of the last gotoLine call is a line of the content buffer
lineInBuffer ==
    /\ last.op = "gotoLine"
    /\ 0 <= last.lineNumber
    /\ last.lineNumber < maxLines

\* the range of the current page holds the line of the last gotoLine call
lineInCurrentPage ==
    /\ startIndex(CURRENT_PAGE) <= last.lineNumber
    /\ last.lineNumber < Min(endIndex(CURRENT_PAGE), maxLines)

\* C29 as stated: for every strictly increasing PAGE_BREAKS of length
\* TOTAL_PAGES - 1 and every line 0 <= L < maxLines, after gotoLine(L,
\* isTitle) from any current page the range rendered for the resulting
\* CURRENT_PAGE holds L: start <= L < end.
C29_LineInRangeAsStated ==
    (lineInBuffer /\ breaksWithoutFirst) => lineInCurrentPage

\* C29 as amended: for every strictly increasing PAGE_BREAKS of length
\* TOTAL_PAGES whose first entry is 0 and every line 0 <= L < maxLines,
\* after gotoLine(L, isTitle) from any current page the range rendered for
\* the resulting CURRENT_PAGE holds L, and when the call changed the page
\* the content rendered holds L.
C29_LineInRange ==
    (lineInBuffer /\ breaksWithFirst)
        => /\ lineInCurrentPage
           /\ last.renders >= 1 => last.lineNumber \in renderedLines(content)

C29_Witness ==
    /\ lineInBuffer
    /\ breaksWithFirst
    /\ TOTAL_PAGES = 3
    /\ last.lineNumber = 1
    /\ ~last.samePage
    /\ CURRENT_PAGE = 2
    /\ content = [startIndex |-> 1, endIndex |-> 2]

(***************************************************************************)
(* Properties of the table of contents (checked under SpecTOC).            *)
(***************************************************************************)

\* C16: after every render of a title list that is not empty the
\* tocRendered event is triggered: once the fallback timeout of the render
\* has expired the event has been triggered for it, and when the element
\* was absent at the expiry the event was triggered together with the
\* logged warning.
C16_RenderCompleteFires ==
    \A k \in DOMAIN tocRenders :
        (tocRenders[k].registered /\ ~tocRenders[k].timer)
            => tocRenders[k].events >= 1

\* C30: for each render of the table of contents tocRendered is triggered
\* at most once, whatever the order of the observer callback and the
\* fallback timeout, and once the fallback timeout of a render has run the
\* observer of that render is disconnected.
C30_RenderCompleteOnce ==
    \A k \in DOMAIN tocRenders :
        /\ tocRenders[k].events <= 1
        /\ (tocRenders[k].registered /\ ~tocRenders[k].timer)
              => ~tocRenders[k].observing

====
